---- MODULE Spec2Model ----
(***************************************************************************)
(* Model of the youtubei.js based download server (src/unnamed/part_003,   *)
(* lines 629-1430): the catalog cache, the retrying upstream client, and   *)
(* the /video-info and /download request handlers with their upstream      *)
(* streams and transcoder process.                                         *)
(*                                                                         *)
(* Every request is a record of the handler's locals and of the objects    *)
(* it owns (response, streams, child process).  One action is one          *)
(* synchronous segment of JavaScript: the code between two awaits, or one  *)
(* event callback.                                                         *)
(***************************************************************************)
EXTENDS Integers, Sequences, FiniteSets, TLC

\* ------------------------------------------------------------------ bounds
NumReq == 2
MaxTicks == 2
\* the longest adaptive and regular format lists of a metadata response
MaxAdaptive == 3
MaxRegular == 2
\* the requests of a client counted beyond the limit of a window
MaxOver == 1
NumCalls == 2

\* ------------------------------------------------------- program constants
stdTTL == 3600
RATE_LIMIT_MAX_REQUESTS == 100
DOWNLOAD_LIMIT_MAX_REQUESTS == 10
MAX_RETRIES == 3
INITIAL_RETRY_DELAY == 1000
CLIENT_REFRESH_INTERVAL == 3600000
PROXY_UPDATE_INTERVAL == 600000

Req == 1..NumReq
\* the clock advances by two thirds of the TTL at a time
TickStep == (2 * stdTTL * 1000) \div 3
MaxTime == MaxTicks * TickStep
None == [none |-> TRUE]

\* ----------------------------------------------------------- pure helpers
RECURSIVE Pow2(_)
Pow2(n) == IF n = 0 THEN 1 ELSE 2 * Pow2(n - 1)

\* parseInt on the strings the model uses; NaN is -1
ParseInt(s) ==
    CASE s = "18" -> 18
      [] s = "137" -> 137
      [] s = "140" -> 140
      [] s = "1080p" -> 1080
      [] s = "720p" -> 720
      [] s = "360p" -> 360
      [] OTHER -> -1

IsNaN(n) == n = -1

\* JavaScript `x || 0` for a number; NaN and a missing number are both -1
OrZero(n) == IF IsNaN(n) THEN 0 ELSE n

\* Array.prototype.filter
Filter(s, P(_)) == SelectSeq(s, P)

\* Array.prototype.sort: stable, the comparator returns a number; built by
\* insertion, each element going before the first one that compares greater
SortWith(s, Cmp(_, _)) ==
    LET Ins(x, t) ==
            LET idx == {i \in 1..Len(t) : Cmp(t[i], x) > 0}
                k == IF idx = {} THEN Len(t) + 1
                     ELSE CHOOSE i \in idx : \A j \in idx : i <= j
            IN SubSeq(t, 1, k - 1) \o <<x>> \o SubSeq(t, k, Len(t))
        S[i \in 0..Len(s)] == IF i = 0 THEN <<>> ELSE Ins(s[i], S[i - 1])
    IN S[Len(s)]

\* Array.prototype.find: first element satisfying P, or None
Find(s, P(_)) ==
    LET m == Filter(s, P) IN IF m = <<>> THEN None ELSE m[1]

MapSeq(s, F(_)) == [i \in 1..Len(s) |-> F(s[i])]

\* ------------------------------------------------------ upstream metadata
\* What yt.getInfo can answer for the one video of the model.  MetaA has
\* adaptive video-only and audio-only entries; MetaB has no adaptive video
\* entry, so that a video catalog falls back to the regular formats.
F137 == [itag |-> 137, has_video |-> TRUE, has_audio |-> FALSE,
         quality_label |-> "1080p", audio_quality |-> "", fps |-> 30, bitrate |-> 4000]
F140 == [itag |-> 140, has_video |-> FALSE, has_audio |-> TRUE,
         quality_label |-> "", audio_quality |-> "AUDIO_QUALITY_MEDIUM", fps |-> 0, bitrate |-> 128]
F251 == [itag |-> 251, has_video |-> FALSE, has_audio |-> TRUE,
         quality_label |-> "", audio_quality |-> "", fps |-> 0, bitrate |-> 160]
F18 == [itag |-> 18, has_video |-> TRUE, has_audio |-> TRUE,
        quality_label |-> "360p", audio_quality |-> "AUDIO_QUALITY_LOW", fps |-> 30, bitrate |-> 500]

MetaA == [title |-> "A", adaptive_formats |-> <<F137, F140, F251>>, formats |-> <<F18>>]
MetaB == [title |-> "B", adaptive_formats |-> <<F140>>, formats |-> <<F18>>]
Metas == {MetaA, MetaB}

\* Metadata responses in general: any list of up to MaxAdaptive distinct
\* adaptive entries and up to MaxRegular distinct regular entries.  F248 has
\* the quality label of F137 in another codec, F139 carries no bitrate, and
\* F22 is a regular 720p entry with a lower bitrate than the 360p one.  An
\* adaptive list may also carry an entry with both tracks (F18).
F248 == [itag |-> 248, has_video |-> TRUE, has_audio |-> FALSE,
         quality_label |-> "1080p", audio_quality |-> "", fps |-> 60, bitrate |-> 3000]
F139 == [itag |-> 139, has_video |-> FALSE, has_audio |-> TRUE,
         quality_label |-> "", audio_quality |-> "AUDIO_QUALITY_LOW", fps |-> 0, bitrate |-> -1]
F22 == [itag |-> 22, has_video |-> TRUE, has_audio |-> TRUE,
        quality_label |-> "720p", audio_quality |-> "AUDIO_QUALITY_MEDIUM", fps |-> 30, bitrate |-> 400]

AdaptivePool == {F137, F248, F140, F251, F139, F18}
RegularPool == {F18, F22}

\* the lists of at most n distinct members of S
ListsOf(S, n) ==
    UNION {{s \in [1..k -> S] : \A i, j \in 1..k : i # j => s[i] # s[j]} : k \in 0..n}

MetaPool ==
    {[title |-> "P", adaptive_formats |-> a, formats |-> g] :
        a \in ListsOf(AdaptivePool, MaxAdaptive), g \in ListsOf(RegularPool, MaxRegular)}

\* error messages, by the marker the code looks for in them
E429 == "Status code: 429"
ESignIn == "Sign in to confirm"
EStreamingData == "streaming data"
EOther == "other upstream error"
UpstreamErrors == {E429, ESignIn, EStreamingData, EOther}

\* --------------------------------------------------------- catalog builder
safelyGetFormats(info) ==
    [adaptiveFormats |-> info.adaptive_formats, regularFormats |-> info.formats]

AudioDescriptor(f) ==
    [itag |-> f.itag,
     quality |-> IF f.audio_quality # "" THEN f.audio_quality ELSE "medium",
     bitrate |-> f.bitrate]

VideoDescriptor(f) ==
    [itag |-> f.itag,
     quality |-> IF f.quality_label # "" THEN f.quality_label ELSE "unknown",
     hasAudio |-> f.has_audio,
     fps |-> f.fps,
     bitrate |-> f.bitrate]

\* a comparator that puts the lowest bitrate first
ByBitrateAsc(a, b) == OrZero(a.bitrate) - OrZero(b.bitrate)

ByBitrateDesc(a, b) == OrZero(b.bitrate) - OrZero(a.bitrate)

VideoCompare(a, b) ==
    LET qualityA == OrZero(ParseInt(a.quality))
        qualityB == OrZero(ParseInt(b.quality))
    IN IF qualityA = qualityB
       THEN IF a.hasAudio # b.hasAudio THEN (IF a.hasAudio THEN -1 ELSE 1)
            ELSE b.fps - a.fps
       ELSE qualityB - qualityA

IsAudioOnly(f) == f.has_audio /\ ~f.has_video
HasAudio(f) == f.has_audio
HasVideo(f) == f.has_video

\* a builder that stops at the primary filter
ProcessFormats_PrimaryOnly(info, type) ==
    LET fs == safelyGetFormats(info) IN
    IF type = "audio"
    THEN SortWith(MapSeq(Filter(fs.adaptiveFormats, IsAudioOnly), AudioDescriptor), ByBitrateDesc)
    ELSE SortWith(MapSeq(Filter(fs.adaptiveFormats, HasVideo), VideoDescriptor), VideoCompare)

\* a builder whose first audio filter takes every entry with an audio track
ProcessFormats_AnyAudio(info, type) ==
    LET fs == safelyGetFormats(info)
        a2 == SortWith(MapSeq(Filter(fs.adaptiveFormats, HasAudio), AudioDescriptor), ByBitrateDesc)
        a3 == SortWith(MapSeq(Filter(fs.regularFormats, HasAudio), AudioDescriptor), ByBitrateDesc)
        v1 == SortWith(MapSeq(Filter(fs.adaptiveFormats, HasVideo), VideoDescriptor), VideoCompare)
        v2 == SortWith(MapSeq(fs.regularFormats, VideoDescriptor), ByBitrateDesc)
    IN IF type = "audio"
       THEN IF a2 # <<>> THEN a2 ELSE a3
       ELSE IF v1 # <<>> THEN v1 ELSE v2

\* the formats list getVideoInfoWithRetry builds for a type
ProcessFormats(info, type) ==
    LET fs == safelyGetFormats(info)
        a1 == SortWith(MapSeq(Filter(fs.adaptiveFormats, IsAudioOnly), AudioDescriptor), ByBitrateDesc)
        a2 == SortWith(MapSeq(Filter(fs.adaptiveFormats, HasAudio), AudioDescriptor), ByBitrateDesc)
        a3 == SortWith(MapSeq(Filter(fs.regularFormats, HasAudio), AudioDescriptor), ByBitrateDesc)
        v1 == SortWith(MapSeq(Filter(fs.adaptiveFormats, HasVideo), VideoDescriptor), VideoCompare)
        v2 == SortWith(MapSeq(fs.regularFormats, VideoDescriptor), ByBitrateDesc)
    IN IF type = "audio"
       THEN IF a1 # <<>> THEN a1 ELSE IF a2 # <<>> THEN a2 ELSE a3
       ELSE IF v1 # <<>> THEN v1 ELSE v2

ResponseData(info, type) == [title |-> info.title, formats |-> ProcessFormats(info, type)]

\* --------------------------------- catalog builder with deduplication
\* The video branch of the builds that deduplicate (src/unnamed/part_002 and
\* the earlier build at the head of src/unnamed/part_003).  F37 is a 1080p
\* entry with an audio track and F134 a 360p entry without one.
DedupPool ==
    LET F37 == [itag |-> 37, has_video |-> TRUE, has_audio |-> TRUE,
            quality_label |-> "1080p", audio_quality |-> "AUDIO_QUALITY_MEDIUM", fps |-> 30, bitrate |-> 4500]
        F134 == [itag |-> 134, has_video |-> TRUE, has_audio |-> FALSE,
             quality_label |-> "360p", audio_quality |-> "", fps |-> 30, bitrate |-> 600]
    IN {F137, F248, F37, F134, F18, F140}

DedupMetas ==
    {[title |-> "D", adaptive_formats |-> a, formats |-> <<>>] :
        a \in ListsOf(DedupPool, MaxAdaptive)}

\* the index in acc of the descriptor kept for a quality label, 0 if none
KeptAt(acc, quality) ==
    LET idx == {i \in DOMAIN acc : acc[i].quality = quality}
    IN IF idx = {} THEN 0 ELSE CHOOSE i \in idx : TRUE

\* a reduce step that lets every descriptor take the place of its label
DedupStep_KeepLast(acc, format) ==
    LET i == KeptAt(acc, format.quality)
    IN IF i = 0 THEN Append(acc, format) ELSE [acc EXCEPT ![i] = format]

\* one step of the reduce: acc[quality] is set when it is empty, or when the
\* descriptor has audio and the one kept has none
DedupStep(acc, format) ==
    LET i == KeptAt(acc, format.quality)
    IN IF i = 0 THEN Append(acc, format)
       ELSE IF format.hasAudio /\ ~acc[i].hasAudio THEN [acc EXCEPT ![i] = format]
       ELSE acc

\* Object.values(videoFormats.reduce(..., {})): the labels in insertion order
DedupByQuality(fs) ==
    LET A[i \in 0..Len(fs)] == IF i = 0 THEN <<>> ELSE DedupStep(A[i - 1], fs[i])
    IN A[Len(fs)]

\* the sorted list the reduce runs over
SortedVideo(info) ==
    SortWith(MapSeq(Filter(info.adaptive_formats, HasVideo), VideoDescriptor), VideoCompare)

\* the catalog of the deduplicating build for a type
ResponseDataDedup(info, type) ==
    [title |-> info.title,
     formats |-> IF type = "audio"
                 THEN SortWith(MapSeq(Filter(info.adaptive_formats,
                                             LAMBDA f : f.audio_quality # "" /\ ~f.has_video),
                                      AudioDescriptor), ByBitrateDesc)
                 ELSE DedupByQuality(SortedVideo(info))]

\* chooseFormat(formats, {quality: itag}) for an itag taken from the query
chooseFormat(formats, quality) ==
    IF formats = <<>> THEN None
    ELSE LET n == ParseInt(quality)
             byItag == IF quality # "" /\ ~IsNaN(n)
                       THEN Find(formats, LAMBDA f : f.itag = n) ELSE None
             byLabel == IF quality # ""
                        THEN Find(formats, LAMBDA f : f.quality = quality) ELSE None
         IN IF byItag # None THEN byItag
            ELSE IF byLabel # None THEN byLabel
            ELSE formats[1]

\* -------------------------------------------------------------------- state
VARIABLES
    limiter,                \* per limited route: the hits of the client's window
    now,                    \* Date.now(), in ms
    videoCache,             \* NodeCache data: key -> None or [v, t]
    innertubeClient,        \* TRUE when the module-level client is set
    clientLastInitialized,
    crashed,                \* the process died of an uncaught exception
    rq,                     \* per request: the handler's locals and objects
    proxyCache,             \* the proxy manager's cache object
    proxyCalls              \* per caller: its call into the proxy manager

vars == <<limiter, now, videoCache, innertubeClient, clientLastInitialized, crashed, rq,
          proxyCache, proxyCalls>>

Types == {"video", "audio"}
NoStream == [st |-> "none", itag |-> 0]

NewRequest ==
    [pc |-> "idle", route |-> "none", urlMissing |-> FALSE, type |-> "video", itag |-> "",
     \* the running invocation of a retrying function
     call |-> "none", opening |-> "none", retryCount |-> 0, waits |-> <<>>,
     nowAt |-> 0, target |-> 0,
     \* the locator of the query and the key getVideoInfoWithRetry made of it
     url |-> None, cacheKey |-> None,
     lookup |-> "none", ytInfo |-> None, info |-> None, fromCache |-> FALSE,
     streamInfo |-> None,
     error |-> "none",
     \* the response
     headersSent |-> FALSE, resEnded |-> FALSE, status |-> 0, errorsSent |-> 0,
     contentType |-> "", extension |-> "",
     \* the download session
     path |-> "none", stream |-> NoStream, videoStream |-> NoStream,
     audioStream |-> NoStream, ffmpeg |-> "none", ffmpegCommand |-> FALSE,
     spawned |-> 0, opened |-> 0,
     \* the connection
     clientGone |-> FALSE, closeFired |-> FALSE, goneInSetup |-> FALSE,
     teardown |-> FALSE, lateFailure |-> FALSE,
     \* log events: the retry announcements of the running call, and the
     \* events of the catch block and of the close and stream error handlers
     retryLogs |-> 0, teardownLogs |-> 0]

Routes == {"info", "download"}

\* the proxy manager after `let proxyCache = {...}`
NewProxyCache == [proxies |-> <<>>, lastUpdated |-> 0, isUpdating |-> FALSE]

Callers == 1..NumCalls

\* a caller that has not called yet; result is what its scrape returned
NewCall == [fn |-> "none", pc |-> "idle", nowAt |-> 0, scraped |-> FALSE,
            failed |-> FALSE, result |-> None, returned |-> None]

\* a window in which the client has made no request; handled counts the
\* requests of the window that were passed on to the route handler
NewWindow == [hits |-> 0, handled |-> 0]

Init ==
    /\ proxyCache = NewProxyCache
    /\ proxyCalls = [c \in Callers |-> NewCall]
    /\ limiter = [x \in Routes |-> NewWindow]
    /\ now = 0
    /\ videoCache = [k \in Types |-> None]
    /\ innertubeClient = FALSE
    /\ clientLastInitialized = 0
    /\ crashed = FALSE
    /\ rq = [r \in Req |-> NewRequest]

\* ------------------------------------------------------------ NodeCache
\* a cache that never lets an entry expire
CacheAlive_NoExpiry(e) == e # None

\* _check: an entry whose expiry lies before the clock is dead
CacheAlive(e) == e # None /\ ~(e.t < now)

CacheGet(k) == IF CacheAlive(videoCache[k]) THEN videoCache[k].v ELSE None

\* get() deletes an entry it finds expired
CacheAfterGet(k) ==
    IF CacheAlive(videoCache[k]) THEN videoCache ELSE [videoCache EXCEPT ![k] = None]

CacheSet(c, k, v) == [c EXCEPT ![k] = [v |-> v, t |-> now + stdTTL * 1000]]

\* ------------------------------------------------------ handler fragments
Transient(e) == e \in {E429, ESignIn, EStreamingData}

Destroy(s) == IF s.st = "open" THEN [s EXCEPT !.st = "destroyed"] ELSE s
Kill(f) == IF f = "running" THEN "killed" ELSE f

HasResources(q) ==
    \/ q.ffmpeg # "none"
    \/ q.stream.st # "none" \/ q.videoStream.st # "none" \/ q.audioStream.st # "none"

\* the cleanup at the end of the /download catch block
CatchCleanup(q) ==
    [q EXCEPT !.videoStream = Destroy(@),
              !.audioStream = Destroy(@),
              !.ffmpeg = IF q.ffmpegCommand THEN Kill(@) ELSE @,
              !.teardown = @ \/ HasResources(q)]

\* res.status(code).json(...)
SendJson(q, code) ==
    [q EXCEPT !.status = code, !.headersSent = TRUE, !.resEnded = TRUE,
              !.errorsSent = IF code = 200 THEN @ ELSE @ + 1]

\* the catch block of a route handler
HandlerCatch(q, e) ==
    LET q1 == [q EXCEPT !.pc = "done", !.error = e, !.call = "none"]
    IN IF q.route = "info"
       THEN SendJson(q1, IF e = E429 THEN 429 ELSE 400)
       ELSE CatchCleanup(
              LET q2 == [q1 EXCEPT !.teardownLogs = @ + 1] IN
              IF ~q.headersSent
              THEN SendJson(q2, IF e \in {E429, ESignIn} THEN 429 ELSE 400)
              ELSE [q2 EXCEPT !.resEnded = TRUE])

\* a retry test that lets one attempt too many through
RetryCatch_OneMore(q, e) ==
    IF Transient(e) /\ q.retryCount <= MAX_RETRIES
    THEN [q EXCEPT !.pc = "delay", !.error = e, !.retryLogs = @ + 1,
                   !.waits = Append(@, INITIAL_RETRY_DELAY * Pow2(q.retryCount))]
    ELSE HandlerCatch(q, e)

\* a catch block that retries whatever was thrown
RetryCatch_Any(q, e) ==
    IF q.retryCount < MAX_RETRIES
    THEN [q EXCEPT !.pc = "delay", !.error = e, !.retryLogs = @ + 1,
                   !.waits = Append(@, INITIAL_RETRY_DELAY * Pow2(q.retryCount))]
    ELSE HandlerCatch(q, e)

\* the catch block of getVideoInfoWithRetry / getVideoStreamWithRetry; while
\* the delay is awaited, error is the error that was caught
RetryCatch(q, e) ==
    IF Transient(e) /\ q.retryCount < MAX_RETRIES
    THEN [q EXCEPT !.pc = "delay", !.error = e, !.retryLogs = @ + 1,
                   !.waits = Append(@, INITIAL_RETRY_DELAY * Pow2(q.retryCount))]
    ELSE HandlerCatch(q, e)

\* getInnertubeClient, up to its first await
ClientFresh == innertubeClient /\ now - clientLastInitialized < CLIENT_REFRESH_INTERVAL

EnterUpstream(q) ==
    IF ClientFresh
    THEN [q EXCEPT !.pc = "getInfo"]
    ELSE [q EXCEPT !.pc = "createClient", !.nowAt = now]

\* a fresh invocation of getVideoStreamWithRetry for one stream slot
StartStreamCall(q, slot) ==
    EnterUpstream([q EXCEPT !.call = "stream", !.opening = slot,
                            !.retryCount = 0, !.waits = <<>>, !.retryLogs = 0])

\* req.on('close', ...) is registered and the handler returns
RegisterClose(q) == [q EXCEPT !.pc = "streaming", !.call = "none"]

\* headers that announce an mp4 video whatever the type
DownloadHeaders_Mp4Always(q) ==
    [q EXCEPT !.extension = "mp4", !.contentType = "video/mp4"]

\* res.header('Content-Disposition', ...) and res.header('Content-Type', ...)
DownloadHeaders(q) ==
    [q EXCEPT !.extension = IF q.type = "audio" THEN "mp3" ELSE "mp4",
              !.contentType = IF q.type = "audio" THEN "audio/mpeg" ELSE "video/mp4"]

\* /download after the catalog is known: choose the path, spawn, open
Resolve(q) ==
    LET format == chooseFormat(q.info.formats, q.itag)
        q1 == DownloadHeaders(q)
        selectedFormat == Find(q.info.formats, LAMBDA f : f.itag = ParseInt(q.itag))
    IN IF format = None THEN HandlerCatch(q, "Selected quality format not available")
       ELSE IF q.type = "audio"
       THEN StartStreamCall([q1 EXCEPT !.path = "audio", !.ffmpeg = "running",
                                       !.spawned = @ + 1], "audio")
       ELSE IF selectedFormat = None THEN HandlerCatch(q1, "TypeError")
       ELSE IF selectedFormat.hasAudio
       THEN StartStreamCall([q1 EXCEPT !.path = "direct"], "direct")
       ELSE StartStreamCall([q1 EXCEPT !.path = "mux", !.ffmpeg = "running",
                                       !.spawned = @ + 1], "video")

\* the caller of getVideoInfoWithRetry resumes with the catalog
AfterInfo(q, cat, cached) ==
    LET q1 == [q EXCEPT !.info = cat, !.fromCache = cached] IN
    IF q.route = "info"
    THEN SendJson([q1 EXCEPT !.pc = "done", !.call = "none"], 200)
    ELSE Resolve(q1)

\* a 'highestaudio' that takes the first audio-only entry as listed
StreamTarget_FirstAudio(info, quality) ==
    LET fs == safelyGetFormats(info)
        n == ParseInt(quality)
        inAdaptive == Find(fs.adaptiveFormats, LAMBDA f : f.itag = n)
        format == IF inAdaptive # None THEN inAdaptive
                  ELSE Find(fs.regularFormats, LAMBDA f : f.itag = n)
        audioFormats == Filter(fs.adaptiveFormats, IsAudioOnly)
    IN IF quality = "highestaudio" /\ audioFormats # <<>>
       THEN [ok |-> TRUE, itag |-> audioFormats[1].itag]
       ELSE IF format = None
       THEN [ok |-> FALSE, error |-> "Format with itag not found"]
       ELSE [ok |-> TRUE, itag |-> format.itag]

\* getVideoStreamWithRetry between getInfo and yt.download: the itag of the
\* format to download, or the message of the error thrown
StreamTarget(info, quality) ==
    LET fs == safelyGetFormats(info)
        n == ParseInt(quality)
        inAdaptive == Find(fs.adaptiveFormats, LAMBDA f : f.itag = n)
        format == IF inAdaptive # None THEN inAdaptive
                  ELSE Find(fs.regularFormats, LAMBDA f : f.itag = n)
        audioFormats == SortWith(Filter(fs.adaptiveFormats, IsAudioOnly), ByBitrateDesc)
        anyAdaptive == SortWith(Filter(fs.adaptiveFormats, HasAudio), ByBitrateDesc)
        anyRegular == SortWith(Filter(fs.regularFormats, HasAudio), ByBitrateDesc)
    IN IF fs.adaptiveFormats = <<>> /\ fs.regularFormats = <<>>
       THEN [ok |-> FALSE, error |-> "No formats found for this video"]
       ELSE IF quality = "highestaudio"
       THEN IF audioFormats # <<>> THEN [ok |-> TRUE, itag |-> audioFormats[1].itag]
            ELSE IF anyAdaptive # <<>> THEN [ok |-> TRUE, itag |-> anyAdaptive[1].itag]
            ELSE IF anyRegular # <<>> THEN [ok |-> TRUE, itag |-> anyRegular[1].itag]
            ELSE [ok |-> FALSE, error |-> "No audio formats found for this video"]
       ELSE IF format = None
       THEN [ok |-> FALSE, error |-> "Format with itag not found"]
       ELSE [ok |-> TRUE, itag |-> format.itag]

\* options.filter passed for a stream slot of the handler (lines 1193-1196,
\* 1261-1269); getVideoStreamWithRetry never reads it
FilterOption(slot) ==
    CASE slot = "audioStream" -> "audioonly"
      [] slot = "videoStream" -> "videoonly"
      [] OTHER -> "none"

\* options.quality of the running getVideoStreamWithRetry invocation
QualityOption(q) == IF q.opening = "muxaudio" THEN "highestaudio" ELSE q.itag

\* ------------------------------------------------------------------ actions
Set(r, q) == rq' = [rq EXCEPT ![r] = q]

\* a request slot is free before its first request and after a finished
\* catalog request; a download keeps its slot, with whatever it left behind
Free(q) == q.pc = "idle" \/ (q.pc = "done" /\ q.route = "info")

ENoUrl == "No URL provided"

\* a /video-info that does not look at the url
VideoInfoEntry_NoCheck(hasUrl, type) ==
    [NewRequest EXCEPT !.route = "info", !.urlMissing = ~hasUrl, !.type = type,
                       !.pc = "lookup", !.call = "info"]

\* GET /video-info up to the call of getVideoInfoWithRetry
VideoInfoEntry(hasUrl, type) ==
    LET q == [NewRequest EXCEPT !.route = "info", !.urlMissing = ~hasUrl, !.type = type] IN
    IF ~hasUrl THEN HandlerCatch(q, ENoUrl)
    ELSE [q EXCEPT !.pc = "lookup", !.call = "info"]

\* a /video-info request of a window that has room
StartVideoInfo(r) ==
    /\ ~crashed /\ Free(rq[r])
    /\ \E hasUrl \in BOOLEAN, type \in Types : Set(r, VideoInfoEntry(hasUrl, type))
    /\ UNCHANGED <<proxyCache, proxyCalls, limiter, now, videoCache, innertubeClient, clientLastInitialized, crashed>>

ItagChoices == {"", "18", "137", "140"}

EMissingInput == "Missing URL or quality selection"

\* a /download that validates the url only
StartDownload_UrlOnly(r) ==
    /\ ~crashed /\ Free(rq[r])
    /\ \E hasUrl \in BOOLEAN, itag \in ItagChoices, type \in Types :
         LET q == [NewRequest EXCEPT !.route = "download", !.type = type, !.itag = itag] IN
         Set(r, IF ~hasUrl
                THEN HandlerCatch(q, EMissingInput)
                ELSE [q EXCEPT !.pc = "lookup", !.call = "info"])
    /\ UNCHANGED <<proxyCache, proxyCalls, limiter, now, videoCache, innertubeClient, clientLastInitialized, crashed>>

\* GET /download up to the call of getVideoInfoWithRetry
DownloadEntry(hasUrl, itag, type) ==
    LET q == [NewRequest EXCEPT !.route = "download", !.urlMissing = ~hasUrl,
                                !.type = type, !.itag = itag] IN
    IF ~hasUrl \/ itag = "" THEN HandlerCatch(q, EMissingInput)
    ELSE [q EXCEPT !.pc = "lookup", !.call = "info"]

\* a /download request of a window that has room
StartDownload(r) ==
    /\ ~crashed /\ Free(rq[r])
    /\ \E hasUrl \in BOOLEAN, itag \in ItagChoices, type \in Types :
         Set(r, DownloadEntry(hasUrl, itag, type))
    /\ UNCHANGED <<proxyCache, proxyCalls, limiter, now, videoCache, innertubeClient, clientLastInitialized, crashed>>

\* ------------------------------------------------------------- getVideoID
\* Locators are sequences of characters.
\* a character under the i flag
Fold(c) ==
    LET Upper == <<"A", "B", "C", "D", "E", "F", "G", "H", "I", "J", "K", "L", "M", "N", "O", "P", "Q", "R", "S", "T", "U", "V", "W", "X", "Y", "Z">>
        Lower == <<"a", "b", "c", "d", "e", "f", "g", "h", "i", "j", "k", "l", "m", "n", "o", "p", "q", "r", "s", "t", "u", "v", "w", "x", "y", "z">>
    IN
    IF \E i \in DOMAIN Upper : Upper[i] = c
    THEN Lower[CHOOSE i \in DOMAIN Upper : Upper[i] = c]
    ELSE c

\* s holds the literal lit at position p, letters compared without case
Literal(s, p, lit) ==
    /\ p >= 1 /\ p + Len(lit) - 1 <= Len(s)
    /\ \A i \in 1..Len(lit) : Fold(s[p + i - 1]) = lit[i]

\* `.` matches every character but a line terminator
Dot(c) == c # "\n"

\* [^"&?\/\s]
IdChar(c) == c \notin {"\"", "&", "?", "/", " ", "\n"}

\* ([^"&?\/\s]{11}) at position p
Group(s, p) == p >= 1 /\ p + 10 <= Len(s) /\ \A i \in p..(p + 10) : IdChar(s[i])

\* the largest member of a set of positions, 0 for the empty set
Last(S) == IF S = {} THEN 0 ELSE CHOOSE x \in S : \A y \in S : y <= x

\* [^\/]+\/.+\/ from q: the first slash after at least one character, then
\* the last slash that leaves the group room behind it
Alt1(s, q) ==
    LET slashes == {a \in (q + 1)..Len(s) : s[a] = "/" /\ \A i \in q..(a - 1) : s[i] # "/"}
        a == Last(slashes)
    IN IF a = 0 THEN 0
       ELSE LET bs == {b \in (a + 2)..Len(s) :
                          /\ s[b] = "/" /\ \A i \in (a + 1)..(b - 1) : Dot(s[i])
                          /\ Group(s, b + 1)}
            IN IF bs = {} THEN 0 ELSE Last(bs) + 1

\* (?:v|e(?:mbed)?)\/ from q
Alt2(s, q) ==
    IF Literal(s, q, <<"v", "/">>) /\ Group(s, q + 2) THEN q + 2
    ELSE IF Literal(s, q, <<"e", "m", "b", "e", "d", "/">>) /\ Group(s, q + 6) THEN q + 6
    ELSE IF Literal(s, q, <<"e", "/">>) /\ Group(s, q + 2) THEN q + 2
    ELSE 0

\* .*[?&]v= from q: the last such parameter that the group can follow
Alt3(s, q) ==
    LET js == {j \in q..Len(s) :
                  /\ \A i \in q..(j - 1) : Dot(s[i])
                  /\ s[j] \in {"?", "&"} /\ Literal(s, j + 1, <<"v", "=">>)
                  /\ Group(s, j + 3)}
    IN IF js = {} THEN 0 ELSE Last(js) + 3

\* the position of the group of a match of the regex that starts at p, 0 if
\* no match starts there
MatchAt(s, p) ==
    IF Literal(s, p, <<"y", "o", "u", "t", "u", "b", "e", ".", "c", "o", "m", "/">>)
    THEN LET q == p + 12 IN
         IF Alt1(s, q) # 0 THEN Alt1(s, q)
         ELSE IF Alt2(s, q) # 0 THEN Alt2(s, q)
         ELSE Alt3(s, q)
    ELSE IF Literal(s, p, <<"y", "o", "u", "t", "u", ".", "b", "e", "/">>) /\ Group(s, p + 9) THEN p + 9
    ELSE 0

\* url.match(regex): the leftmost match; match[1], or the url itself
getVideoID(url) ==
    LET starts == {p \in 1..Len(url) : MatchAt(url, p) # 0}
    IN IF starts = {} THEN url
       ELSE LET p == CHOOSE x \in starts : \A y \in starts : x <= y
                g == MatchAt(url, p)
            IN SubSeq(url, g, g + 10)

\* `https://www.youtube.com/watch?v=${videoId}`
CleanURL(videoId) == <<"h", "t", "t", "p", "s", ":", "/", "/", "w", "w", "w", ".", "y", "o", "u", "t", "u", "b", "e", ".", "c", "o", "m", "/", "w", "a", "t", "c", "h", "?", "v", "=">> \o videoId

\* `${videoId}-${type}`
CacheKeyOf(url, type) == getVideoID(url) \o <<"-">> \o (IF type = "audio" THEN <<"a", "u", "d", "i", "o">> ELSE <<"v", "i", "d", "e", "o">>)

\* the locators a client sends: an id, URLs the regex knows, and others
Locators ==
    LET VideoId == <<"d", "Q", "w", "4", "w", "9", "W", "g", "X", "c", "Q">>
        WatchUrl == <<"h", "t", "t", "p", "s", ":", "/", "/", "w", "w", "w", ".", "y", "o", "u", "t", "u", "b", "e", ".", "c", "o", "m", "/", "w", "a", "t", "c", "h", "?", "v", "=">> \o VideoId
        WatchUrlShared == <<"h", "t", "t", "p", "s", ":", "/", "/", "m", ".", "y", "o", "u", "t", "u", "b", "e", ".", "c", "o", "m", "/", "w", "a", "t", "c", "h", "?", "f", "e", "a", "t", "u", "r", "e", "=", "s", "h", "a", "r", "e", "&", "v", "=">> \o VideoId
        ShortUrl == <<"h", "t", "t", "p", "s", ":", "/", "/", "y", "o", "u", "t", "u", ".", "b", "e", "/">> \o VideoId
        EmbedUrl == <<"h", "t", "t", "p", "s", ":", "/", "/", "w", "w", "w", ".", "y", "o", "u", "t", "u", "b", "e", ".", "c", "o", "m", "/", "e", "m", "b", "e", "d", "/">> \o VideoId
        LegacyUrl == <<"H", "T", "T", "P", ":", "/", "/", "W", "W", "W", ".", "Y", "O", "U", "T", "U", "B", "E", ".", "C", "O", "M", "/", "V", "/">> \o VideoId
        ShortsUrl == <<"h", "t", "t", "p", "s", ":", "/", "/", "w", "w", "w", ".", "y", "o", "u", "t", "u", "b", "e", ".", "c", "o", "m", "/", "s", "h", "o", "r", "t", "s", "/">> \o VideoId
        LiveUrl == <<"h", "t", "t", "p", "s", ":", "/", "/", "w", "w", "w", ".", "y", "o", "u", "t", "u", "b", "e", ".", "c", "o", "m", "/", "l", "i", "v", "e", "/">> \o VideoId
        LongId == VideoId \o <<"x">>
        Word == <<"a", "b", "c">>
    IN {VideoId, WatchUrl, WatchUrlShared, ShortUrl, EmbedUrl, LegacyUrl,
        ShortsUrl, LiveUrl, LongId, Word}

\* GET /video-info for a locator, up to the cache key of
\* getVideoInfoWithRetry(videoURL, type)
VideoInfoOf(r) ==
    /\ ~crashed /\ rq[r].pc = "idle"
    /\ \E l \in Locators, type \in Types :
         Set(r, [VideoInfoEntry(TRUE, type) EXCEPT !.url = l, !.cacheKey = CacheKeyOf(l, type)])
    /\ UNCHANGED <<proxyCache, proxyCalls, limiter, now, videoCache, innertubeClient, clientLastInitialized, crashed>>

\* GET /download for a locator, up to the cache key of
\* getVideoInfoWithRetry(cleanURL, type)
DownloadOf(r) ==
    /\ ~crashed /\ rq[r].pc = "idle"
    /\ \E l \in Locators, type \in Types :
         LET videoId == getVideoID(l)
             cleanURL == CleanURL(videoId)
         IN Set(r, [DownloadEntry(TRUE, "18", type) EXCEPT
                        !.url = l, !.cacheKey = CacheKeyOf(cleanURL, type)])
    /\ UNCHANGED <<proxyCache, proxyCalls, limiter, now, videoCache, innertubeClient, clientLastInitialized, crashed>>

\* ---------------------------------------------------------- proxy manager
\* what axios.get can end with: a page, or a failure
\* the pages of the proxy site, by the rows of their table
Pages ==
    LET RowA == [url |-> "https://10.0.0.1:8080", https |-> TRUE]
        RowB == [url |-> "https://10.0.0.2:3128", https |-> FALSE]
        RowC == [url |-> "https://10.0.0.3:443", https |-> TRUE]
    IN ListsOf({RowA, RowB, RowC}, 2)
ScrapeOutcomes ==
    {[failed |-> TRUE, rows |-> <<>>]} \cup {[failed |-> FALSE, rows |-> p] : p \in Pages}

\* scrapeProxies: the rows that support HTTPS; [] when anything throws
scrapeProxies(outcome) ==
    IF outcome.failed THEN <<>>
    ELSE MapSeq(Filter(outcome.rows, LAMBDA row : row.https), LAMBDA row : row.url)

SetCall(c, q) == proxyCalls' = [proxyCalls EXCEPT ![c] = q]

\* the early return of updateProxiesIfNeeded
ProxiesFresh(at) ==
    at - proxyCache.lastUpdated < PROXY_UPDATE_INTERVAL /\ Len(proxyCache.proxies) > 0

\* an updateProxiesIfNeeded that does not look at isUpdating
UpdateStart_NoFlag(c) ==
    /\ proxyCalls[c].pc \in {"idle", "done"}
    /\ LET q == [NewCall EXCEPT !.fn = "update", !.nowAt = now] IN
       IF ProxiesFresh(now)
       THEN SetCall(c, [q EXCEPT !.pc = "done"]) /\ UNCHANGED proxyCache
       ELSE /\ proxyCache' = [proxyCache EXCEPT !.isUpdating = TRUE]
            /\ SetCall(c, [q EXCEPT !.pc = "scraping", !.scraped = TRUE])
    /\ UNCHANGED <<limiter, now, videoCache, innertubeClient, clientLastInitialized, crashed, rq>>

\* updateProxiesIfNeeded up to `await scrapeProxies()`
UpdateStart(c) ==
    /\ proxyCalls[c].pc \in {"idle", "done"}
    /\ LET q == [NewCall EXCEPT !.fn = "update", !.nowAt = now] IN
       IF proxyCache.isUpdating \/ ProxiesFresh(now)
       THEN SetCall(c, [q EXCEPT !.pc = "done"]) /\ UNCHANGED proxyCache
       ELSE /\ proxyCache' = [proxyCache EXCEPT !.isUpdating = TRUE]
            /\ SetCall(c, [q EXCEPT !.pc = "scraping", !.scraped = TRUE])
    /\ UNCHANGED <<limiter, now, videoCache, innertubeClient, clientLastInitialized, crashed, rq>>

\* updateProxiesIfNeeded after the scrape: the list and the time taken at
\* the start are stored when the list is not empty; finally resets the flag
UpdateFinish(c) ==
    /\ proxyCalls[c].fn = "update" /\ proxyCalls[c].pc = "scraping"
    /\ \E outcome \in ScrapeOutcomes :
         LET proxies == scrapeProxies(outcome)
             stored == IF Len(proxies) > 0
                       THEN [proxyCache EXCEPT !.proxies = proxies,
                                               !.lastUpdated = proxyCalls[c].nowAt]
                       ELSE proxyCache
         IN /\ proxyCache' = [stored EXCEPT !.isUpdating = FALSE]
            /\ SetCall(c, [proxyCalls[c] EXCEPT !.pc = "done", !.failed = outcome.failed,
                                                !.result = proxies])
    /\ UNCHANGED <<limiter, now, videoCache, innertubeClient, clientLastInitialized, crashed, rq>>

\* forceProxyUpdate up to `await scrapeProxies()`
ForceStart(c) ==
    /\ proxyCalls[c].pc \in {"idle", "done"}
    /\ SetCall(c, [NewCall EXCEPT !.fn = "force", !.pc = "scraping", !.scraped = TRUE])
    /\ UNCHANGED <<proxyCache, limiter, now, videoCache, innertubeClient, clientLastInitialized,
                   crashed, rq>>

\* a forceProxyUpdate that stores whatever the scrape returned
ForceFinish_StoreAny(c) ==
    /\ proxyCalls[c].fn = "force" /\ proxyCalls[c].pc = "scraping"
    /\ \E outcome \in ScrapeOutcomes :
         LET proxies == scrapeProxies(outcome) IN
         /\ proxyCache' = [proxyCache EXCEPT !.proxies = proxies, !.lastUpdated = now]
         /\ SetCall(c, [proxyCalls[c] EXCEPT !.pc = "done", !.failed = outcome.failed,
                                             !.result = proxies,
                                             !.returned = proxyCache'.proxies])
    /\ UNCHANGED <<limiter, now, videoCache, innertubeClient, clientLastInitialized, crashed, rq>>

\* forceProxyUpdate after the scrape: the list and Date.now() are stored
\* when the list is not empty; the list of the cache is returned
ForceFinish(c) ==
    /\ proxyCalls[c].fn = "force" /\ proxyCalls[c].pc = "scraping"
    /\ \E outcome \in ScrapeOutcomes :
         LET proxies == scrapeProxies(outcome) IN
         /\ proxyCache' = IF Len(proxies) > 0
                          THEN [proxyCache EXCEPT !.proxies = proxies, !.lastUpdated = now]
                          ELSE proxyCache
         /\ SetCall(c, [proxyCalls[c] EXCEPT !.pc = "done", !.failed = outcome.failed,
                                             !.result = proxies,
                                             !.returned = proxyCache'.proxies])
    /\ UNCHANGED <<limiter, now, videoCache, innertubeClient, clientLastInitialized, crashed, rq>>

\* ------------------------------------------------------------ rate limiters
\* `max` of videoInfoLimiter and of downloadLimiter
LimitOf(route) ==
    IF route = "info" THEN RATE_LIMIT_MAX_REQUESTS ELSE DOWNLOAD_LIMIT_MAX_REQUESTS

\* `message.error` of the two limiters
ELimited(route) ==
    IF route = "info" THEN "Too many requests" ELSE "Download limit exceeded"

\* a limiter that lets one request more through
LimiterAllows_OneMore(totalHits, route) == totalHits <= LimitOf(route) + 1

\* the limiter passes a request on while the hits of the window, this
\* request included, do not exceed max
LimiterAllows(totalHits, route) == totalHits <= LimitOf(route)

\* the limiter answers by itself: res.status(429).send(message)
Rejected(route) ==
    [NewRequest EXCEPT !.route = route, !.pc = "done", !.error = ELimited(route),
                       !.status = 429, !.headersSent = TRUE, !.resEnded = TRUE,
                       !.errorsSent = 1]

\* app.use(route, limiter) in front of app.get(route, handler): a request
\* of the client arrives; the slot of a request that is over is reused
Arrive(r, route) ==
    /\ ~crashed /\ rq[r].pc \in {"idle", "done"}
    /\ limiter[route].hits < LimitOf(route) + MaxOver
    /\ LET totalHits == limiter[route].hits + 1 IN
       IF LimiterAllows(totalHits, route)
       THEN /\ limiter' = [limiter EXCEPT ![route] = [hits |-> totalHits, handled |-> @.handled + 1]]
            /\ IF route = "info"
               THEN \E hasUrl \in BOOLEAN, type \in Types :
                        Set(r, VideoInfoEntry(hasUrl, type))
               ELSE \E hasUrl \in BOOLEAN, itag \in ItagChoices, type \in Types :
                        Set(r, DownloadEntry(hasUrl, itag, type))
       ELSE /\ limiter' = [limiter EXCEPT ![route].hits = totalHits]
            /\ Set(r, Rejected(route))
    /\ UNCHANGED <<proxyCache, proxyCalls, now, videoCache, innertubeClient, clientLastInitialized, crashed>>

\* windowMs has passed since the first hit of the window
WindowReset(route) ==
    /\ ~crashed /\ limiter[route].hits > 0
    /\ limiter' = [limiter EXCEPT ![route] = NewWindow]
    /\ UNCHANGED <<proxyCache, proxyCalls, now, videoCache, innertubeClient, clientLastInitialized, crashed, rq>>

\* getVideoInfoWithRetry: the cache check and what follows it
CacheLookup(r) ==
    /\ ~crashed /\ rq[r].pc = "lookup"
    /\ LET k == rq[r].type
           cachedData == CacheGet(k)
           q == [rq[r] EXCEPT !.lookup = IF cachedData # None THEN "hit"
                                         ELSE IF videoCache[k] # None THEN "expired"
                                         ELSE "miss"]
       IN /\ videoCache' = CacheAfterGet(k)
          /\ Set(r, IF cachedData # None THEN AfterInfo(q, cachedData, TRUE)
                    ELSE EnterUpstream(q))
    /\ UNCHANGED <<proxyCache, proxyCalls, limiter, now, innertubeClient, clientLastInitialized, crashed>>

\* Innertube.create resolves
ClientCreated(r) ==
    /\ ~crashed /\ rq[r].pc = "createClient"
    /\ innertubeClient' = TRUE
    /\ clientLastInitialized' = rq[r].nowAt
    /\ Set(r, [rq[r] EXCEPT !.pc = "getInfo", !.nowAt = 0])
    /\ UNCHANGED <<proxyCache, proxyCalls, limiter, now, videoCache, crashed>>

\* Innertube.create rejects; the error is rethrown with its message inside
ClientCreateFails(r) ==
    /\ ~crashed /\ rq[r].pc = "createClient"
    /\ \E e \in UpstreamErrors : Set(r, RetryCatch([rq[r] EXCEPT !.nowAt = 0], e))
    /\ UNCHANGED <<proxyCache, proxyCalls, limiter, now, videoCache, innertubeClient, clientLastInitialized, crashed>>

ENoFormats == "No formats found for this video"
ENoSuitable == "No suitable formats found"

\* a getVideoInfoWithRetry that stores what it built before looking at it
GetInfoAnswers_CacheFirst(r, info) ==
    LET q == [rq[r] EXCEPT !.ytInfo = info]
        responseData == ResponseData(info, q.type)
    IN /\ videoCache' = CacheSet(videoCache, q.type, responseData)
       /\ Set(r, IF info.adaptive_formats = <<>> /\ info.formats = <<>>
                 THEN RetryCatch(q, ENoFormats)
                 ELSE IF responseData.formats = <<>>
                 THEN RetryCatch(q, ENoSuitable)
                 ELSE AfterInfo(q, responseData, FALSE))

\* a getVideoInfoWithRetry that leaves an entry written meanwhile in place
\* and returns it instead of the catalog it built
GetInfoAnswers_KeepFirst(r, info) ==
    LET q == [rq[r] EXCEPT !.ytInfo = info]
        k == q.type
    IN IF CacheAlive(videoCache[k])
       THEN /\ UNCHANGED videoCache
            /\ Set(r, AfterInfo(q, videoCache[k].v, FALSE))
       ELSE /\ videoCache' = CacheSet(videoCache, k, ResponseData(info, k))
            /\ Set(r, AfterInfo(q, ResponseData(info, k), FALSE))

\* getVideoInfoWithRetry from the answer of yt.getInfo to its return or throw
GetInfoAnswers(r, info) ==
    LET q == [rq[r] EXCEPT !.ytInfo = info]
        responseData == ResponseData(info, q.type)
    IN IF info.adaptive_formats = <<>> /\ info.formats = <<>>
       THEN /\ Set(r, RetryCatch(q, ENoFormats))
            /\ UNCHANGED videoCache
       ELSE IF responseData.formats = <<>>
       THEN /\ Set(r, RetryCatch(q, ENoSuitable))
            /\ UNCHANGED videoCache
       ELSE /\ videoCache' = CacheSet(videoCache, q.type, responseData)
            /\ Set(r, AfterInfo(q, responseData, FALSE))

\* yt.getInfo resolves inside getVideoInfoWithRetry
GetInfoReturns(r) ==
    /\ ~crashed /\ rq[r].pc = "getInfo" /\ rq[r].call = "info"
    /\ \E info \in Metas : GetInfoAnswers(r, info)
    /\ UNCHANGED <<proxyCache, proxyCalls, limiter, now, innertubeClient, clientLastInitialized, crashed>>

\* the same, for any metadata response
GetInfoFromPool(r) ==
    /\ ~crashed /\ rq[r].pc = "getInfo" /\ rq[r].call = "info"
    /\ \E info \in MetaPool : GetInfoAnswers(r, info)
    /\ UNCHANGED <<proxyCache, proxyCalls, limiter, now, innertubeClient, clientLastInitialized, crashed>>

\* yt.getInfo resolves inside the getVideoInfoWithRetry of the
\* deduplicating build, which stores and returns what it built
GetInfoDedup(r) ==
    /\ ~crashed /\ rq[r].pc = "getInfo" /\ rq[r].call = "info"
    /\ \E info \in DedupMetas :
         LET q == [rq[r] EXCEPT !.ytInfo = info]
             responseData == ResponseDataDedup(info, q.type)
         IN /\ videoCache' = CacheSet(videoCache, q.type, responseData)
            /\ Set(r, AfterInfo(q, responseData, FALSE))
    /\ UNCHANGED <<proxyCache, proxyCalls, limiter, now, innertubeClient, clientLastInitialized, crashed>>

\* yt.getInfo resolves inside getVideoStreamWithRetry; streamInfo is the
\* function's local `info` while yt.download is awaited
StreamInfoReturns(r) ==
    /\ ~crashed /\ rq[r].pc = "getInfo" /\ rq[r].call = "stream"
    /\ \E info \in Metas :
         LET t == StreamTarget(info, QualityOption(rq[r])) IN
         Set(r, IF t.ok THEN [rq[r] EXCEPT !.pc = "download", !.target = t.itag,
                                           !.streamInfo = info]
                ELSE RetryCatch(rq[r], t.error))
    /\ UNCHANGED <<proxyCache, proxyCalls, limiter, now, videoCache, innertubeClient, clientLastInitialized, crashed>>

\* a failure that leaves an entry behind for the key
GetInfoFails_Cached(r) ==
    /\ ~crashed /\ rq[r].pc = "getInfo"
    /\ \E e \in UpstreamErrors : Set(r, RetryCatch(rq[r], e))
    /\ videoCache' = CacheSet(videoCache, rq[r].type, [title |-> "", formats |-> <<>>])
    /\ UNCHANGED <<proxyCache, proxyCalls, limiter, now, innertubeClient, clientLastInitialized, crashed>>

\* yt.getInfo rejects
GetInfoFails(r) ==
    /\ ~crashed /\ rq[r].pc = "getInfo"
    /\ \E e \in UpstreamErrors : Set(r, RetryCatch(rq[r], e))
    /\ UNCHANGED <<proxyCache, proxyCalls, limiter, now, videoCache, innertubeClient, clientLastInitialized, crashed>>

\* a Mux path that forgets to open the audio stream
AfterStream_VideoOnly(q) ==
    LET s == [st |-> "open", itag |-> q.target]
        q1 == [q EXCEPT !.opened = @ + 1, !.target = 0, !.streamInfo = None]
    IN CASE q.opening = "direct" ->
              RegisterClose([q1 EXCEPT !.stream = s])
         [] q.opening = "audio" ->
              RegisterClose([q1 EXCEPT !.audioStream = s, !.ffmpegCommand = TRUE])
         [] q.opening = "video" ->
              RegisterClose([q1 EXCEPT !.videoStream = s, !.ffmpegCommand = TRUE])
         [] q.opening = "muxaudio" ->
              RegisterClose([q1 EXCEPT !.audioStream = s, !.ffmpegCommand = TRUE])

\* /download after a stream was opened: wire it, or open the next one
AfterStream(q) ==
    LET s == [st |-> "open", itag |-> q.target]
        q1 == [q EXCEPT !.opened = @ + 1, !.target = 0, !.streamInfo = None]
    IN CASE q.opening = "direct" ->
              RegisterClose([q1 EXCEPT !.stream = s])
         [] q.opening = "audio" ->
              RegisterClose([q1 EXCEPT !.audioStream = s, !.ffmpegCommand = TRUE])
         [] q.opening = "video" ->
              StartStreamCall([q1 EXCEPT !.videoStream = s], "muxaudio")
         [] q.opening = "muxaudio" ->
              RegisterClose([q1 EXCEPT !.audioStream = s, !.ffmpegCommand = TRUE])

\* yt.download resolves with a stream
DownloadReturns(r) ==
    /\ ~crashed /\ rq[r].pc = "download"
    /\ Set(r, AfterStream(rq[r]))
    /\ UNCHANGED <<proxyCache, proxyCalls, limiter, now, videoCache, innertubeClient, clientLastInitialized, crashed>>

\* yt.download rejects
DownloadFails(r) ==
    /\ ~crashed /\ rq[r].pc = "download"
    /\ \E e \in UpstreamErrors : Set(r, RetryCatch([rq[r] EXCEPT !.target = 0, !.streamInfo = None], e))
    /\ UNCHANGED <<proxyCache, proxyCalls, limiter, now, videoCache, innertubeClient, clientLastInitialized, crashed>>

\* the retry timer fires and the function calls itself with retryCount + 1
\* a retry that goes upstream without looking into the cache again
DelayDone_SkipCache(r) ==
    /\ ~crashed /\ rq[r].pc = "delay"
    /\ LET q == [rq[r] EXCEPT !.retryCount = @ + 1, !.error = "none"] IN
       Set(r, EnterUpstream(q))
    /\ UNCHANGED <<proxyCache, proxyCalls, limiter, now, videoCache, innertubeClient, clientLastInitialized, crashed>>

\* the delay of a retry is over: the function is invoked again with
\* retryCount + 1
DelayDone(r) ==
    /\ ~crashed /\ rq[r].pc = "delay"
    /\ LET q == [rq[r] EXCEPT !.retryCount = @ + 1, !.error = "none"] IN
       Set(r, IF q.call = "info" THEN [q EXCEPT !.pc = "lookup"] ELSE EnterUpstream(q))
    /\ UNCHANGED <<proxyCache, proxyCalls, limiter, now, videoCache, innertubeClient, clientLastInitialized, crashed>>

\* ------------------------------------------------------- streaming events
Slots == {"stream", "videoStream", "audioStream"}
SlotOf(q, slot) ==
    CASE slot = "stream" -> q.stream
      [] slot = "videoStream" -> q.videoStream
      [] slot = "audioStream" -> q.audioStream
WithSlot(q, slot, s) ==
    CASE slot = "stream" -> [q EXCEPT !.stream = s]
      [] slot = "videoStream" -> [q EXCEPT !.videoStream = s]
      [] slot = "audioStream" -> [q EXCEPT !.audioStream = s]

Transcoded(q) == q.path \in {"audio", "mux"}

\* the stream has a consumer that reads it: the response, or the transcoder
Flowing(q, slot) ==
    /\ q.pc = "streaming" /\ SlotOf(q, slot).st = "open"
    /\ IF slot = "stream" THEN ~q.clientGone /\ ~q.resEnded ELSE q.ffmpeg = "running"

\* an 'error' listener is attached to the stream (lines 1212, 1288, 1299)
ErrorHandled(q, slot) == q.pc = "streaming" /\ slot # "stream"

\* the first body bytes reach the response
FirstByte(r) ==
    /\ ~crashed /\ rq[r].pc = "streaming"
    /\ ~rq[r].headersSent /\ ~rq[r].resEnded /\ ~rq[r].clientGone
    /\ IF Transcoded(rq[r]) THEN rq[r].ffmpeg = "running" ELSE rq[r].stream.st = "open"
    /\ Set(r, [rq[r] EXCEPT !.headersSent = TRUE, !.status = 200])
    /\ UNCHANGED <<proxyCache, proxyCalls, limiter, now, videoCache, innertubeClient, clientLastInitialized, crashed>>

\* an upstream stream ends; stream.pipe(res) then ends the response
StreamEnd(r) ==
    /\ ~crashed
    /\ \E slot \in Slots :
         /\ Flowing(rq[r], slot)
         /\ LET q == WithSlot(rq[r], slot, [SlotOf(rq[r], slot) EXCEPT !.st = "ended"]) IN
            Set(r, IF slot = "stream"
                   THEN [q EXCEPT !.resEnded = TRUE, !.headersSent = TRUE,
                                  !.status = IF @ = 0 THEN 200 ELSE @]
                   ELSE q)
    /\ UNCHANGED <<proxyCache, proxyCalls, limiter, now, videoCache, innertubeClient, clientLastInitialized, crashed>>

\* the body of videoStream.on('error') / audioStream.on('error')
StreamErrorHandler(q) ==
    LET q1 == IF ~q.headersSent THEN SendJson(q, 500) ELSE q
    IN [q1 EXCEPT !.ffmpeg = Kill(@), !.teardown = TRUE,
                  !.lateFailure = @ \/ q.headersSent, !.teardownLogs = @ + 1]

\* an upstream stream emits 'error'; without a listener the process dies
StreamError(r) ==
    /\ ~crashed
    /\ \E slot \in Slots :
         /\ SlotOf(rq[r], slot).st = "open"
         /\ LET q == WithSlot(rq[r], slot, [SlotOf(rq[r], slot) EXCEPT !.st = "errored"]) IN
            IF ErrorHandled(rq[r], slot)
            THEN Set(r, StreamErrorHandler(q)) /\ UNCHANGED crashed
            ELSE /\ Set(r, [q EXCEPT !.lateFailure = @ \/ q.headersSent])
                 /\ crashed' = TRUE
    /\ UNCHANGED <<proxyCache, proxyCalls, limiter, now, videoCache, innertubeClient, clientLastInitialized>>

\* the transcoder exits with a non-zero code; the 'exit' listener only logs
FfmpegFails(r) ==
    /\ ~crashed /\ rq[r].ffmpeg = "running"
    /\ Set(r, [rq[r] EXCEPT !.ffmpeg = "failed", !.lateFailure = @ \/ rq[r].headersSent])
    /\ UNCHANGED <<proxyCache, proxyCalls, limiter, now, videoCache, innertubeClient, clientLastInitialized, crashed>>

InputsEnded(q) ==
    /\ q.audioStream.st = "ended"
    /\ q.path = "mux" => q.videoStream.st = "ended"

\* the transcoder has read all its inputs and exits with code 0
FfmpegFinishes(r) ==
    /\ ~crashed /\ rq[r].pc = "streaming" /\ rq[r].ffmpeg = "running"
    /\ InputsEnded(rq[r])
    /\ Set(r, [rq[r] EXCEPT !.ffmpeg = "exited"])
    /\ UNCHANGED <<proxyCache, proxyCalls, limiter, now, videoCache, innertubeClient, clientLastInitialized, crashed>>

\* ffmpeg.stdio[1].pipe(res): the end of the transcoder's output ends res
StdoutEnd(r) ==
    /\ ~crashed /\ rq[r].pc = "streaming" /\ Transcoded(rq[r])
    /\ rq[r].ffmpeg \in {"killed", "failed", "exited"}
    /\ ~rq[r].resEnded
    /\ Set(r, [rq[r] EXCEPT !.resEnded = TRUE, !.headersSent = TRUE,
                            !.status = IF @ = 0 THEN 200 ELSE @])
    /\ UNCHANGED <<proxyCache, proxyCalls, limiter, now, videoCache, innertubeClient, clientLastInitialized, crashed>>

\* a stream still piped into a dead transcoder writes to the closed pipe:
\* EPIPE is emitted on ffmpeg.stdio[n], which has no 'error' listener
PipeError(r) ==
    /\ ~crashed /\ rq[r].pc = "streaming" /\ Transcoded(rq[r])
    /\ rq[r].ffmpeg \in {"killed", "failed"}
    /\ rq[r].videoStream.st = "open" \/ rq[r].audioStream.st = "open"
    /\ crashed' = TRUE
    /\ UNCHANGED <<proxyCache, proxyCalls, limiter, now, videoCache, innertubeClient, clientLastInitialized, rq>>

\* the body of req.on('close')
CloseHandler(q) ==
    [q EXCEPT !.videoStream = Destroy(@),
              !.audioStream = Destroy(@),
              !.ffmpeg = IF q.ffmpegCommand THEN Kill(@) ELSE @,
              !.closeFired = TRUE, !.teardown = TRUE, !.teardownLogs = @ + 1]

\* the client closes the connection; 'close' reaches only a listener that
\* is already registered
ClientClose(r) ==
    /\ ~crashed /\ rq[r].route = "download" /\ ~rq[r].clientGone
    /\ rq[r].pc # "done" \/ HasResources(rq[r])
    /\ LET q == [rq[r] EXCEPT !.clientGone = TRUE] IN
       Set(r, IF q.pc = "streaming" THEN CloseHandler(q)
              ELSE [q EXCEPT !.goneInSetup = q.pc # "done"])
    /\ UNCHANGED <<proxyCache, proxyCalls, limiter, now, videoCache, innertubeClient, clientLastInitialized, crashed>>

\* ------------------------------------------------------------ environment
Tick ==
    /\ ~crashed /\ now + TickStep <= MaxTime
    /\ now' = now + TickStep
    /\ UNCHANGED <<proxyCache, proxyCalls, limiter, videoCache, innertubeClient, clientLastInitialized, crashed, rq>>

\* NodeCache's periodic check (checkperiod) deletes the expired entries
Sweep ==
    /\ ~crashed
    /\ \E k \in Types : videoCache[k] # None /\ ~CacheAlive(videoCache[k])
    /\ videoCache' = [k \in Types |-> IF CacheAlive(videoCache[k]) THEN videoCache[k] ELSE None]
    /\ UNCHANGED <<proxyCache, proxyCalls, limiter, now, innertubeClient, clientLastInitialized, crashed, rq>>

\* the steps of the catalog side: getVideoInfoWithRetry and its upstream
CatalogStep(r) ==
    \/ CacheLookup(r)
    \/ ClientCreated(r)
    \/ ClientCreateFails(r)
    \/ GetInfoReturns(r)
    \/ GetInfoFails(r)
    \/ DelayDone(r)

\* the steps only a download takes
DownloadStep(r) ==
    \/ StreamInfoReturns(r)
    \/ DownloadReturns(r)
    \/ DownloadFails(r)
    \/ FirstByte(r)
    \/ StreamEnd(r)
    \/ StreamError(r)
    \/ FfmpegFails(r)
    \/ FfmpegFinishes(r)
    \/ StdoutEnd(r)
    \/ PipeError(r)
    \/ ClientClose(r)

\* Catalog requests from the start of the process, concurrent, with the
\* clock and the cache's periodic check.
Next ==
    \/ \E r \in Req : StartVideoInfo(r)
    \/ \E r \in Req : CatalogStep(r)
    \/ Tick
    \/ Sweep

Spec == Init /\ [][Next]_vars

\* A download session, started in any state the catalog side can have left
\* the cache and the client in; the clock stands still during the session.
CacheWrittenAt(w, info) ==
    [k \in Types |-> [v |-> ResponseData(info, k), t |-> w + stdTTL * 1000]]

InitDownload ==
    /\ proxyCache = NewProxyCache
    /\ proxyCalls = [c \in Callers |-> NewCall]
    /\ limiter = [x \in Routes |-> NewWindow]
    /\ now = MaxTime
    /\ \E c \in {<<FALSE, 0>>, <<TRUE, 0>>, <<TRUE, MaxTime - TickStep>>} :
         /\ innertubeClient = c[1] /\ clientLastInitialized = c[2]
         \* an entry is written through a client: one created no later than
         \* the entry, or one that has since replaced a client an hour old
         /\ videoCache \in {[k \in Types |-> None]}
               \cup {CacheWrittenAt(w, info) :
                        w \in {v \in {0, MaxTime - TickStep} :
                                 c[1] /\ (c[2] <= v \/ c[2] >= CLIENT_REFRESH_INTERVAL)},
                        info \in Metas}
    /\ crashed = FALSE
    /\ rq = [r \in Req |-> NewRequest]

\* the request slot of the session
Session == CHOOSE r \in Req : \A o \in Req : r <= o

NextDownload ==
    \/ StartDownload(Session)
    \/ CatalogStep(Session)
    \/ DownloadStep(Session)

SpecDownload == InitDownload /\ [][NextDownload]_vars

\* Catalog requests for a video whose metadata can be any response of
\* MetaPool, served one after the other by a server whose client exists.
InitCatalog ==
    /\ proxyCache = NewProxyCache
    /\ proxyCalls = [c \in Callers |-> NewCall]
    /\ limiter = [x \in Routes |-> NewWindow]
    /\ now = 0
    /\ videoCache = [k \in Types |-> None]
    /\ innertubeClient = TRUE
    /\ clientLastInitialized = 0
    /\ crashed = FALSE
    /\ rq = [r \in Req |-> NewRequest]

NextCatalog ==
    \/ StartVideoInfo(Session)
    \/ CacheLookup(Session)
    \/ GetInfoFromPool(Session)

SpecCatalog == InitCatalog /\ [][NextCatalog]_vars

\* Concurrent downloads of a server whose client exists and whose cache
\* holds the catalogs of the video.
InitSessions ==
    /\ proxyCache = NewProxyCache
    /\ proxyCalls = [c \in Callers |-> NewCall]
    /\ limiter = [x \in Routes |-> NewWindow]
    /\ now = 0
    /\ videoCache = CacheWrittenAt(0, MetaA)
    /\ innertubeClient = TRUE
    /\ clientLastInitialized = 0
    /\ crashed = FALSE
    /\ rq = [r \in Req |-> NewRequest]

NextSessions ==
    \E r \in Req :
        \/ StartDownload(r)
        \/ CacheLookup(r)
        \/ DownloadStep(r)

SpecSessions == InitSessions /\ [][NextSessions]_vars

\* Catalog requests served by the deduplicating build.
NextDedup ==
    \/ StartVideoInfo(Session)
    \/ CacheLookup(Session)
    \/ GetInfoDedup(Session)

SpecDedup == InitCatalog /\ [][NextDedup]_vars

\* The proxy manager: the module has been loaded, and its call of
\* updateProxiesIfNeeded is waiting for the scrape.
InitProxy ==
    /\ limiter = [x \in Routes |-> NewWindow]
    /\ now = 0
    /\ videoCache = [k \in Types |-> None]
    /\ innertubeClient = FALSE
    /\ clientLastInitialized = 0
    /\ crashed = FALSE
    /\ rq = [r \in Req |-> NewRequest]
    /\ proxyCache = [NewProxyCache EXCEPT !.isUpdating = TRUE]
    /\ proxyCalls = [c \in Callers |->
                        IF c = 1
                        THEN [NewCall EXCEPT !.fn = "update", !.pc = "scraping", !.scraped = TRUE]
                        ELSE NewCall]

NextProxy ==
    \/ \E c \in Callers : UpdateStart(c)
    \/ \E c \in Callers : UpdateFinish(c)
    \/ \E c \in Callers : ForceStart(c)
    \/ \E c \in Callers : ForceFinish(c)
    \/ Tick

SpecProxy == InitProxy /\ [][NextProxy]_vars

\* Requests for locators, up to the cache key they look up.
NextKey == \E r \in Req : VideoInfoOf(r) \/ DownloadOf(r)

SpecKey == InitCatalog /\ [][NextKey]_vars

\* The requests of one client, one after the other, through the limiters.
NextLimiter ==
    \/ \E route \in Routes : Arrive(Session, route)
    \/ \E route \in Routes : WindowReset(route)
    \/ CacheLookup(Session)
    \/ GetInfoReturns(Session)
    \/ GetInfoFails(Session)

SpecLimiter == InitCatalog /\ [][NextLimiter]_vars

\* Upstream calls are answered and timers fire; a stream that is being read
\* reaches its end unless it fails; the transcoder finishes once its inputs
\* have ended and its output then ends.  Failures and the client's
\* disconnect are never forced.
FairSpecDownload ==
    /\ SpecDownload
    /\ WF_vars(CatalogStep(Session))
    /\ WF_vars(StreamInfoReturns(Session) \/ DownloadReturns(Session) \/ DownloadFails(Session))
    /\ WF_vars(StreamEnd(Session))
    /\ WF_vars(FfmpegFinishes(Session))
    /\ WF_vars(StdoutEnd(Session))

\* ------------------------------------------------------------- properties
\* no upstream stream of the session is open and its transcoder, if any,
\* has been signalled or has exited
NoLive(q) ==
    /\ q.stream.st # "open" /\ q.videoStream.st # "open" /\ q.audioStream.st # "open"
    /\ q.ffmpeg # "running"

Upstream(q) == q.pc \in {"createClient", "getInfo"}

\* C1: a getVideoInfoWithRetry call that finds an entry written less than
\* the TTL ago returns the stored catalog without going upstream; a call
\* that finds an entry past its expiry goes upstream, swept or not.
C1_CacheTtl ==
    [][\A r \in Req :
         (rq[r].pc = "lookup" /\ rq'[r].pc # "lookup") =>
            LET e == videoCache[rq[r].type] IN
            /\ (e # None /\ now - (e.t - stdTTL * 1000) < stdTTL * 1000) =>
                  (rq'[r].info = e.v /\ rq'[r].fromCache /\ ~Upstream(rq'[r]))
            /\ (e # None /\ e.t < now) =>
                  (Upstream(rq'[r]) /\ rq'[r].info = None)
            /\ e = None => Upstream(rq'[r])]_vars

\* a request found an entry past its expiry that the periodic check had
\* not removed, and was answered with a catalog fetched again
C1_Witness ==
    \E r \in Req :
        /\ rq[r].lookup = "expired" /\ rq[r].pc = "done" /\ rq[r].status = 200
        /\ ~rq[r].fromCache /\ now = MaxTime

RetryWaits == <<1000, 2000, 4000>>

RECURSIVE SumSeq(_)
SumSeq(s) == IF s = <<>> THEN 0 ELSE Head(s) + SumSeq(Tail(s))

\* C2: a retrying call makes at most 4 attempts, waits 1000, 2000 and 4000 ms
\* between them, at most 7000 ms in all, and a transient error reaches the
\* caller only after the 4th attempt has failed.
C2_RetryBound ==
    \A r \in Req :
        LET q == rq[r] IN
        /\ q.retryCount + 1 <= 4
        /\ Len(q.waits) <= 3
        /\ q.waits = SubSeq(RetryWaits, 1, Len(q.waits))
        /\ Len(q.waits) = IF q.pc = "delay" THEN q.retryCount + 1 ELSE q.retryCount
        /\ SumSeq(q.waits) <= INITIAL_RETRY_DELAY * (Pow2(MAX_RETRIES) - 1)
        /\ (q.pc = "done" /\ Transient(q.error)) =>
               (q.retryCount + 1 = 4 /\ q.waits = RetryWaits)

\* the opening of a stream gave up after four rate-limited attempts
C2_Witness ==
    \E r \in Req :
        /\ rq[r].pc = "done" /\ rq[r].error = E429 /\ rq[r].path = "mux"
        /\ rq[r].retryCount = 3 /\ rq[r].waits = RetryWaits

\* C3: once the client has closed the connection of a streaming download,
\* eventually no stream of the request is open and no transcoder runs.
C3_DisconnectTearsDown ==
    \A r \in Req : rq[r].closeFired ~> NoLive(rq[r])

\* C4: when the handler ends in its catch block after the transcoder was
\* spawned, the transcoder is not running and no stream is open.
C4_OpenFailureCleansUp ==
    \A r \in Req :
        (rq[r].pc = "done" /\ rq[r].spawned > 0) => NoLive(rq[r])

\* C5: when the client has gone while the download was being set up, the
\* request eventually holds no open stream and no running transcoder.
C5_EarlyDisconnectTearsDown ==
    \A r \in Req :
        rq[r].goneInSetup ~> (rq[r].pc \in {"streaming", "done"} /\ NoLive(rq[r]))

\* C6: every request that has started eventually has its response ended
\* (or its connection closed by the client).
C6_ResponseEnds ==
    \A r \in Req :
        (rq[r].pc # "idle") ~> (rq[r].resEnded \/ rq[r].clientGone)

\* C7: no error of a request terminates the process.
C7_NoCrash == ~crashed

\* C8: after the first teardown trigger of a session (catch block, stream
\* error handler, disconnect handler) no stream of the session is open and
\* its transcoder is not running.
C8_TeardownOnce ==
    \A r \in Req : rq[r].teardown => NoLive(rq[r])

\* C9: a download sends at most one JSON error, and a failure that comes
\* after the headers were sent leads to the response being ended.
C9_LateFailureEndsResponse ==
    /\ [](\A r \in Req : rq[r].errorsSent <= 1)
    /\ \A r \in Req : rq[r].lateFailure ~> rq[r].resEnded

BestAudio(info) == StreamTarget(info, "highestaudio").itag

\* C10: a video download that is streaming has opened two streams (the
\* selected format and the best audio) and spawned one transcoder when the
\* selected catalog format has no audio, and one stream and no transcoder
\* when it has audio.
C10_StreamsAndTranscoder ==
    \A r \in Req :
        LET q == rq[r] IN
        (q.route = "download" /\ q.type = "video" /\ q.pc = "streaming") =>
            LET sel == Find(q.info.formats, LAMBDA f : f.itag = ParseInt(q.itag)) IN
            /\ sel # None
            /\ IF sel.hasAudio
               THEN /\ q.opened = 1 /\ q.spawned = 0 /\ q.ffmpeg = "none"
                    /\ q.stream.itag = sel.itag
                    /\ q.videoStream = NoStream /\ q.audioStream = NoStream
               ELSE /\ q.opened = 2 /\ q.spawned = 1 /\ q.ffmpeg # "none"
                    /\ q.videoStream.itag = sel.itag
                    /\ \E info \in Metas : q.audioStream.itag = BestAudio(info)
                    /\ q.stream = NoStream

\* a video-only format is being merged with the best audio
C10_Witness ==
    \E r \in Req :
        /\ rq[r].pc = "streaming" /\ rq[r].path = "mux"
        /\ rq[r].opened = 2 /\ rq[r].spawned = 1
        /\ rq[r].videoStream.itag = 137 /\ rq[r].audioStream.itag = 251

Catalogs(type) ==
    {rq[r].info : r \in {x \in Req : rq[x].info # None /\ rq[x].type = type}}
    \cup {videoCache[k].v : k \in {x \in Types : x = type /\ videoCache[x] # None}}

\* C12: the formats of a video catalog hold at most one descriptor per
\* quality label.
C12_OnePerLabel ==
    \A c \in Catalogs("video") :
        \A i, j \in DOMAIN c.formats :
            i # j => c.formats[i].quality # c.formats[j].quality

ParsedQuality(f) == OrZero(ParseInt(f.quality))

\* C13: the first format of a video catalog has the largest parsed quality
\* of the list.
C13_BestFirst ==
    \A c \in Catalogs("video") :
        \A i \in DOMAIN c.formats :
            ParsedQuality(c.formats[1]) >= ParsedQuality(c.formats[i])

Usable(m, type) ==
    IF type = "audio"
    THEN \/ \E i \in DOMAIN m.adaptive_formats : m.adaptive_formats[i].has_audio
         \/ \E i \in DOMAIN m.formats : m.formats[i].has_audio
    ELSE \/ \E i \in DOMAIN m.adaptive_formats : m.adaptive_formats[i].has_video
         \/ m.formats # <<>>

\* C17: a call whose metadata has an entry for some filter of the type
\* returns a catalog; otherwise it fails with a no-formats error and returns
\* and stores nothing; no catalog with an empty formats list exists.
C17_NoEmptyCatalog ==
    /\ [](\A t \in Types : \A c \in Catalogs(t) : c.formats # <<>>)
    /\ [](\A r \in Req :
            (rq[r].route = "info" /\ rq[r].pc = "done" /\ rq[r].ytInfo # None) =>
                IF Usable(rq[r].ytInfo, rq[r].type)
                THEN rq[r].error = "none" /\ rq[r].status = 200 /\ rq[r].info # None
                ELSE /\ rq[r].error \in {ENoFormats, ENoSuitable}
                     /\ rq[r].info = None /\ rq[r].status = 400)
    /\ [][\A r \in Req :
            (rq'[r].error \in {ENoFormats, ENoSuitable} /\ rq[r] # rq'[r]) =>
                videoCache' = videoCache]_vars

\* the metadata had entries, but none that any filter for the type accepts;
\* and a catalog came from a broadened filter
C17_Witness ==
    /\ \E r \in Req :
        /\ rq[r].pc = "done" /\ rq[r].type = "audio" /\ rq[r].error = ENoSuitable
        /\ rq[r].ytInfo.adaptive_formats # <<>> /\ videoCache["audio"] = None
    /\ videoCache["video"] # None
    /\ videoCache["video"].v.formats[1].itag \in {18, 22}

InCall(q) == q.pc \in {"lookup", "createClient", "getInfo", "download"}

C16_ExhaustedIs429 ==
    \A r \in Req :
        (rq[r].pc = "done" /\ rq[r].error \in {E429, ESignIn} /\ rq[r].errorsSent = 1) =>
            rq[r].status = 429

\* C18: no step in which a call fails, or ends a request in error, changes
\* the cache; an entry is written only in the step in which a call returns
\* the catalog it fetched, and it is that catalog; a call that finds no live
\* entry for its key goes upstream.
C18_NoNegativeCaching ==
    /\ [][\A r \in Req :
            (rq'[r].error # "none" /\ rq[r] # rq'[r]) => videoCache' = videoCache]_vars
    /\ [][\A k \in Types :
            (videoCache'[k] # videoCache[k] /\ videoCache'[k] # None) =>
                \E r \in Req :
                    /\ rq[r].pc = "getInfo" /\ rq[r].type = k
                    /\ rq'[r].error = "none" /\ rq'[r].info = videoCache'[k].v
                    /\ rq'[r].info.formats # <<>>]_vars
    /\ [][\A r \in Req :
            (rq[r].pc = "lookup" /\ rq'[r].pc # "lookup" /\ ~CacheAlive(videoCache[rq[r].type])) =>
                Upstream(rq'[r])]_vars

\* a request ended in error after its retries, the cache has no entry for
\* its key, and the next request for the key has gone upstream
C18_Witness ==
    \E r, o \in Req :
        /\ rq[r].pc = "done" /\ rq[r].error = E429 /\ rq[r].retryCount = MAX_RETRIES
        /\ videoCache[rq[r].type] = None
        /\ rq[o].type = rq[r].type /\ rq[o].lookup = "miss" /\ Upstream(rq[o])

EFormatNotFound == "Format with itag not found"
ENotAvailable == "Selected quality format not available"

\* the metadata a catalog was built from, and every entry of a metadata
MediaOf(c) == CHOOSE m \in Metas : m.title = c.title
AllFormats(m) == m.adaptive_formats \o m.formats
ItagsOf(m) == {AllFormats(m)[i].itag : i \in DOMAIN AllFormats(m)}

\* C19: a download whose itag is the id of no entry of the media ends
\* with a format-not-found error unless an upstream call failed first, and
\* it opens no stream of another format.
C19_FormatNotFound ==
    \A r \in Req :
        LET q == rq[r] IN
        (q.route = "download" /\ q.info # None /\ q.itag # ""
            /\ ParseInt(q.itag) \notin ItagsOf(MediaOf(q.info))) =>
            /\ q.error \in {"none", EFormatNotFound, ENotAvailable} \cup UpstreamErrors
            /\ \A slot \in Slots :
                  SlotOf(q, slot).st # "none" => SlotOf(q, slot).itag = ParseInt(q.itag)

IsVideoOnly(f) == f.has_video /\ ~f.has_audio

\* the itag of the first entry of a list, 0 for an empty list
FirstItag(fs) == IF fs = <<>> THEN 0 ELSE fs[1].itag

\* what the filter of a stream call asks for: the entry with the requested
\* id when it satisfies the filter, else the highest-bitrate entry that does
Wanted(m, quality, filter) ==
    LET f == Find(AllFormats(m), LAMBDA x : x.itag = ParseInt(quality))
        audioOnly == SortWith(Filter(AllFormats(m), IsAudioOnly), ByBitrateDesc)
        videoOnly == SortWith(Filter(AllFormats(m), IsVideoOnly), ByBitrateDesc)
    IN IF f = None THEN 0
       ELSE IF filter = "audioonly" /\ ~IsAudioOnly(f) THEN FirstItag(audioOnly)
       ELSE IF filter = "videoonly" /\ ~IsVideoOnly(f) THEN FirstItag(videoOnly)
       ELSE f.itag

\* C20: a stream opened for a requested id with filter 'audioonly' is that
\* of an audio-only entry, the highest-bitrate one when the entry found for
\* the id is not audio-only; likewise for 'videoonly'.
C20_FilterHonoured ==
    \A r \in Req : \A slot \in {"videoStream", "audioStream"} :
        LET q == rq[r] IN
        (SlotOf(q, slot).st # "none" /\ ~(q.path = "mux" /\ slot = "audioStream")) =>
            \E m \in Metas :
                SlotOf(q, slot).itag = Wanted(m, q.itag, FilterOption(slot))

\* the entry of a metadata with a given itag
FormatOf(m, itag) == Find(AllFormats(m), LAMBDA f : f.itag = itag)

\* C21: a 'highestaudio' stream call whose live metadata has an audio-only
\* entry downloads, and then opens, an audio-only entry of that metadata
\* that no audio-only entry of it exceeds in bitrate; no step of a stream
\* call reads or writes the cache.
C21_HighestAudio ==
    /\ [](\A r \in Req :
            LET q == rq[r] IN
            (q.pc = "download" /\ q.opening = "muxaudio"
                /\ \E i \in DOMAIN AllFormats(q.streamInfo) : IsAudioOnly(AllFormats(q.streamInfo)[i])) =>
                LET f == FormatOf(q.streamInfo, q.target) IN
                /\ f # None /\ IsAudioOnly(f)
                /\ \A i \in DOMAIN AllFormats(q.streamInfo) :
                      LET g == AllFormats(q.streamInfo)[i] IN
                      IsAudioOnly(g) => OrZero(g.bitrate) <= OrZero(f.bitrate))
    /\ [][\A r \in Req :
            (rq[r].pc = "download" /\ rq[r].opening = "muxaudio" /\ rq'[r].pc = "streaming") =>
                rq'[r].audioStream = [st |-> "open", itag |-> rq[r].target]]_vars
    /\ [][\A r \in Req :
            (rq[r].call = "stream" /\ rq'[r] # rq[r]) =>
                (videoCache' = videoCache /\ rq'[r].pc # "lookup"
                 /\ rq'[r].info = rq[r].info)]_vars

\* the best audio of the live metadata is being downloaded for a session
\* that runs on a cached catalog of other metadata, whose best audio differs
C21_Witness ==
    \E r \in Req :
        /\ rq[r].pc = "download" /\ rq[r].opening = "muxaudio"
        /\ rq[r].fromCache /\ rq[r].info.title = "A"
        /\ videoCache["audio"] # None /\ videoCache["audio"].v.formats[1].itag = 251
        /\ rq[r].streamInfo = MetaB /\ rq[r].target = 140

\* C22: when the first body byte of a download is written its Content-Type
\* and the extension of its Content-Disposition filename are already set,
\* to audio/mpeg and mp3 for type audio and to video/mp4 and mp4 otherwise,
\* and once the headers are sent neither changes.
C22_HeadersFixed ==
    /\ [](\A r \in Req :
            (rq[r].route = "download" /\ rq[r].headersSent /\ rq[r].status = 200) =>
                IF rq[r].type = "audio"
                THEN rq[r].contentType = "audio/mpeg" /\ rq[r].extension = "mp3"
                ELSE rq[r].contentType = "video/mp4" /\ rq[r].extension = "mp4")
    /\ [][\A r \in Req :
            (~rq[r].headersSent /\ rq'[r].headersSent /\ rq'[r].status = 200) =>
                /\ rq[r].contentType # "" /\ rq[r].extension # ""
                /\ rq'[r].contentType = rq[r].contentType
                /\ rq'[r].extension = rq[r].extension]_vars
    /\ [][\A r \in Req :
            (rq[r].route = "download" /\ rq[r].headersSent) =>
                /\ rq'[r].contentType = rq[r].contentType
                /\ rq'[r].extension = rq[r].extension]_vars

\* an audio download has sent its headers and streams transcoded bytes
C22_Witness ==
    \E r \in Req :
        /\ rq[r].type = "audio" /\ rq[r].pc = "streaming" /\ rq[r].ffmpeg = "running"
        /\ rq[r].headersSent /\ rq[r].status = 200 /\ ~rq[r].resEnded
        /\ rq[r].contentType = "audio/mpeg" /\ rq[r].extension = "mp3"

\* C23: once the transcoder of a download has exited abnormally while a
\* stream of the download is open, eventually no upstream stream of the
\* download is open and its response is ended.
C23_TranscoderFailureTearsDown ==
    \A r \in Req :
        (rq[r].ffmpeg = "failed"
            /\ (rq[r].videoStream.st = "open" \/ rq[r].audioStream.st = "open")) ~>
            (rq[r].resEnded /\ rq[r].videoStream.st # "open" /\ rq[r].audioStream.st # "open")

\* the request holds an open upstream stream or a running transcoder
Live(q) ==
    \/ q.stream.st = "open" \/ q.videoStream.st = "open" \/ q.audioStream.st = "open"
    \/ q.ffmpeg = "running"

\* C24: a step of one download (an upstream answer, a stream or transcoder
\* event, an error, a disconnect) leaves the streams and the transcoder of
\* every other download as they were, and they go on living.
C24_SessionsIsolated ==
    [][\A r, o \in Req :
         (r # o /\ DownloadStep(r) /\ Live(rq[o])) =>
             (rq'[o] = rq[o] /\ ~crashed')]_vars

\* C25: in a window of a client no more than RATE_LIMIT_MAX_REQUESTS
\* /video-info requests and no more than DOWNLOAD_LIMIT_MAX_REQUESTS
\* /download requests reach their handler; a request beyond that is answered
\* 429 by the limiter in a step that leaves the cache and the client alone,
\* and it looks nothing up, calls nothing upstream and spawns nothing.
C25_RateLimited ==
    /\ [](\A route \in Routes : limiter[route].handled <= LimitOf(route))
    /\ [](\A r \in Req :
            (rq[r].error \in {ELimited(route) : route \in Routes}) =>
                /\ rq[r].pc = "done" /\ rq[r].status = 429 /\ rq[r].resEnded
                /\ rq[r].lookup = "none" /\ rq[r].ytInfo = None /\ rq[r].info = None
                /\ rq[r].call = "none" /\ rq[r].retryCount = 0 /\ rq[r].opened = 0
                /\ rq[r].spawned = 0 /\ rq[r].ffmpeg = "none")
    /\ [][\A route \in Routes :
            (limiter[route].hits >= LimitOf(route)
                /\ limiter'[route].hits > limiter[route].hits) =>
                /\ \E r \in Req : rq'[r] = Rejected(route) /\ rq[r].pc \in {"idle", "done"}
                /\ limiter'[route].handled = limiter[route].handled
                /\ videoCache' = videoCache /\ innertubeClient' = innertubeClient]_vars

\* both windows of the client are used up and its next download was refused
C25_Witness ==
    /\ limiter["info"].handled = RATE_LIMIT_MAX_REQUESTS
    /\ limiter["download"].handled = DOWNLOAD_LIMIT_MAX_REQUESTS
    /\ limiter["download"].hits = DOWNLOAD_LIMIT_MAX_REQUESTS + 1
    /\ \E r \in Req : rq[r] = Rejected("download")

\* C26: a /video-info request without url is answered 400 with the error
\* 'No URL provided' in the step in which it arrives, a step that leaves the
\* cache and the client as they were; the request looks nothing up and
\* calls nothing upstream.
C26_NoUrl ==
    /\ [](\A r \in Req :
            (rq[r].route = "info" /\ (rq[r].urlMissing \/ rq[r].error = ENoUrl)) =>
                /\ rq[r].urlMissing /\ rq[r].error = ENoUrl
                /\ rq[r].pc = "done" /\ rq[r].status = 400 /\ rq[r].errorsSent = 1
                /\ rq[r].resEnded /\ rq[r].lookup = "none" /\ rq[r].call = "none"
                /\ rq[r].ytInfo = None /\ rq[r].info = None /\ rq[r].retryCount = 0)
    /\ [][\A r \in Req :
            (rq'[r].error = ENoUrl /\ rq'[r] # rq[r]) =>
                /\ rq[r].pc \in {"idle", "done"}
                /\ videoCache' = videoCache /\ innertubeClient' = innertubeClient]_vars

\* a catalog request without url was answered while the cache held a catalog
C26_Witness ==
    \E r \in Req :
        /\ rq[r].route = "info" /\ rq[r].urlMissing /\ rq[r].pc = "done"
        /\ rq[r].error = ENoUrl /\ rq[r].status = 400 /\ videoCache[rq[r].type] # None

\* the session of a download that acquired a stream or a transcoder is over
SessionOver(q) ==
    /\ q.route = "download" /\ q.spawned + q.opened > 0
    /\ q.pc = "done" \/ (q.pc = "streaming" /\ q.resEnded /\ ~Live(q))

\* C27: every retry of a call has logged one announcement before its delay,
\* and a download session that is over, by completion, error or disconnect,
\* has logged exactly one teardown event.
C27_OneLogEach ==
    \A r \in Req :
        /\ rq[r].retryLogs = Len(rq[r].waits)
        /\ SessionOver(rq[r]) => rq[r].teardownLogs = 1

\* C28: in the Mux path, while the video stream is still being opened (its
\* retry delays included) the opening of the audio stream is under way, and
\* a video stream that is open is being forwarded into the transcoder
\* whether or not the audio stream is open yet.
C28_OpenedConcurrently ==
    \A r \in Req :
        LET q == rq[r] IN
        (q.path = "mux" /\ q.pc \in {"createClient", "getInfo", "download", "delay"}) =>
            /\ q.videoStream.st = "none" =>
                  (q.opening = "muxaudio" \/ q.audioStream.st # "none")
            /\ q.videoStream.st = "open" => Flowing(q, "videoStream")

\* C29: in the Mux path, once the error of an upstream stream has been
\* handled the other stream is not open and the transcoder does not run.
C29_MuxErrorTearsDown ==
    \A r \in Req :
        LET q == rq[r] IN
        (q.path = "mux" /\ q.pc = "streaming"
            /\ (q.videoStream.st = "errored" \/ q.audioStream.st = "errored")) =>
            /\ q.videoStream.st # "open" /\ q.audioStream.st # "open"
            /\ q.ffmpeg # "running"

\* C30: a download that has chosen its path chose it from a catalog that was
\* fetched upstream during the request, not from a cache entry.
C30_ResolveFromFreshCatalog ==
    \A r \in Req :
        (rq[r].route = "download" /\ rq[r].path # "none") =>
            (~rq[r].fromCache /\ rq[r].lookup # "hit" /\ rq[r].ytInfo # None)

\* C31: a catalog request answered by its own upstream call returns the
\* catalog built from the metadata that call received, whatever a
\* concurrent request for the key has stored meanwhile, and stores it; an
\* entry of the cache is always a complete catalog of some metadata.
C31_ConcurrentMisses ==
    /\ [](\A k \in Types :
            videoCache[k] # None =>
                \E m \in Metas : videoCache[k].v = ResponseData(m, k))
    /\ [][\A r \in Req :
            (rq[r].pc = "getInfo" /\ rq[r].call = "info"
                /\ rq'[r].pc = "done" /\ rq'[r].error = "none") =>
                /\ rq'[r].status = 200 /\ rq'[r].ytInfo \in Metas
                /\ rq'[r].info = ResponseData(rq'[r].ytInfo, rq[r].type)
                /\ videoCache'[rq[r].type].v = rq'[r].info]_vars
    /\ [][\A r, o \in Req :
            (r # o /\ rq[r].pc = "lookup" /\ rq'[r].pc # "lookup"
                /\ ~CacheAlive(videoCache[rq[r].type])) =>
                (Upstream(rq'[r]) /\ rq'[o] = rq[o])]_vars

\* two requests for one key missed the cache before any entry was written,
\* each was answered from its own upstream call with other metadata, and
\* the cache holds the catalog of one of the two
C31_Witness ==
    \E r, o \in Req :
        /\ now = 0 /\ r # o /\ rq[r].type = rq[o].type
        /\ rq[r].lookup = "miss" /\ rq[o].lookup = "miss"
        /\ rq[r].retryCount = 0 /\ rq[o].retryCount = 0
        /\ rq[r].pc = "done" /\ rq[o].pc = "done"
        /\ rq[r].status = 200 /\ rq[o].status = 200
        /\ rq[r].ytInfo = MetaA /\ rq[o].ytInfo = MetaB
        /\ rq[r].info = ResponseData(MetaA, rq[r].type)
        /\ rq[o].info = ResponseData(MetaB, rq[o].type)
        /\ videoCache[rq[r].type] # None /\ videoCache[rq[r].type].v = rq[o].info

\* C32: a deduplicated video catalog keeps one descriptor for every label
\* of the sorted list: one with audio when some descriptor of the label has
\* audio, else the first descriptor of the label in sorted order.
C32_DedupPrefersAudio ==
    \A r \in Req :
        (/\ rq[r].type = "video" /\ rq[r].pc = "done" /\ rq[r].info # None
         /\ rq[r].ytInfo # None /\ ~rq[r].fromCache)
        => LET sorted == SortedVideo(rq[r].ytInfo)
               c == rq[r].info
           IN /\ {c.formats[i].quality : i \in DOMAIN c.formats}
                    = {sorted[i].quality : i \in DOMAIN sorted}
              /\ \A i, j \in DOMAIN c.formats :
                    i # j => c.formats[i].quality # c.formats[j].quality
              /\ \A i \in DOMAIN c.formats :
                    LET kept == c.formats[i] IN
                    /\ \E j \in DOMAIN sorted : sorted[j] = kept
                    /\ IF \E j \in DOMAIN sorted :
                              sorted[j].quality = kept.quality /\ sorted[j].hasAudio
                       THEN kept.hasAudio
                       ELSE kept = Find(sorted, LAMBDA f : f.quality = kept.quality)

\* a catalog was built from a list that names a 1080p entry without audio
\* before the 1080p entry with audio, and a 360p label without any audio
C32_Witness ==
    \E r \in Req :
        /\ rq[r].type = "video" /\ rq[r].pc = "done" /\ rq[r].info # None
        /\ rq[r].ytInfo # None
        /\ MapSeq(rq[r].ytInfo.adaptive_formats, LAMBDA f : f.itag) = <<137, 37, 134>>
        /\ Len(rq[r].info.formats) = 2
        /\ rq[r].info.formats[1].itag = 37 /\ rq[r].info.formats[2].itag = 134

\* C33: every format of an audio catalog is built from an upstream entry
\* with an audio track; it is built from an entry that also has a video
\* track only when the upstream metadata has no audio-only adaptive entry.
C33_AudioOnlyUnlessFallback ==
    \A r \in Req :
        (/\ rq[r].type = "audio" /\ rq[r].info # None
         /\ rq[r].ytInfo # None /\ ~rq[r].fromCache)
        => \A i \in DOMAIN rq[r].info.formats :
              LET e == FormatOf(rq[r].ytInfo, rq[r].info.formats[i].itag) IN
              /\ e # None
              /\ e.has_audio
              /\ e.has_video =>
                    ~\E j \in DOMAIN rq[r].ytInfo.adaptive_formats :
                         IsAudioOnly(rq[r].ytInfo.adaptive_formats[j])

\* audio catalogs were answered from the primary filter, next to an entry
\* with both tracks that was left out, and from the broadened fallback
C33_Witness ==
    \E r \in Req :
        LET q == rq[r] IN
        /\ q.type = "audio" /\ q.pc = "done" /\ q.info # None /\ q.ytInfo # None
        /\ ~q.fromCache
        /\ \/ /\ q.ytInfo.adaptive_formats = <<F18, F140>>
              /\ Len(q.info.formats) = 1 /\ q.info.formats[1].itag = 140
           \/ /\ q.ytInfo.adaptive_formats = <<F137, F18>>
              /\ Len(q.info.formats) = 1 /\ q.info.formats[1].itag = 18

\* C34: a /video-info request and a /download request for the same locator
\* and type look up the same cache key.
C34_SameKey ==
    \A r, o \in Req :
        (/\ rq[r].route = "info" /\ rq[o].route = "download"
         /\ rq[r].url # None /\ rq[r].url = rq[o].url /\ rq[r].type = rq[o].type)
        => rq[r].cacheKey = rq[o].cacheKey

\* C35: a catalog call that waits in a retry delay is not touched by the
\* store of a concurrent call; when its delay ends it looks into the cache
\* again, and a retried attempt that finds a live entry returns the stored
\* catalog and goes upstream no more.
C35_RetryReadsCache ==
    [][\A r \in Req :
         LET q == rq[r]
             e == videoCache[q.type]
         IN /\ (q.pc = "delay" /\ q.call = "info" /\ videoCache' # videoCache)
                  => rq'[r] = q
            /\ (q.pc = "delay" /\ q.call = "info" /\ rq'[r] # q)
                  => (rq'[r].pc = "lookup" /\ rq'[r].retryCount = q.retryCount + 1)
            /\ (q.pc = "lookup" /\ q.retryCount > 0 /\ rq'[r] # q /\ CacheAlive(e))
                  => /\ rq'[r].info = e.v /\ rq'[r].fromCache
                     /\ rq'[r].ytInfo = q.ytInfo
                     /\ ~Upstream(rq'[r])
                     /\ q.route = "info" => (rq'[r].pc = "done" /\ rq'[r].status = 200)]_vars

\* before the clock moved, a request that had missed, failed upstream and
\* retried was answered with the catalog another request had stored
C35_Witness ==
    \E r, o \in Req :
        /\ r # o /\ now = 0 /\ rq[r].type = rq[o].type
        /\ rq[r].route = "info" /\ rq[r].pc = "done" /\ rq[r].status = 200
        /\ rq[r].retryCount >= 1 /\ rq[r].lookup = "hit" /\ rq[r].fromCache
        /\ rq[r].ytInfo = None
        /\ rq[o].pc = "done" /\ rq[o].lookup = "miss" /\ ~rq[o].fromCache
        /\ rq[o].info # None /\ rq[r].info = rq[o].info

\* C36: a client is created only when none exists or the existing one is
\* CLIENT_REFRESH_INTERVAL old: no Innertube.create resolves, and replaces
\* the client, while a client younger than the interval exists.
C36_OneClientPerInterval ==
    [][\A r \in Req :
         (rq[r].pc = "createClient" /\ rq'[r].pc = "getInfo") => ~ClientFresh]_vars

\* C37: at most one scrape of updateProxiesIfNeeded is in progress;
\* isUpdating is true exactly while it is, so it is false once every call
\* has finished; a call made while isUpdating is true returns at once,
\* without a scrape and without a change of the cache.
C37_OneUpdateAtATime ==
    /\ [](Cardinality({x \in Callers : proxyCalls[x].fn = "update" /\ proxyCalls[x].pc = "scraping"}) <= 1)
    /\ [](proxyCache.isUpdating <=>
            \E x \in Callers : proxyCalls[x].fn = "update" /\ proxyCalls[x].pc = "scraping")
    /\ [][\A c \in Callers :
            (/\ proxyCalls[c].pc # "scraping" /\ proxyCalls'[c] # proxyCalls[c]
             /\ proxyCalls'[c].fn = "update" /\ proxyCache.isUpdating)
            => /\ proxyCalls'[c].pc = "done" /\ ~proxyCalls'[c].scraped
               /\ proxyCache' = proxyCache]_vars
    /\ [][\A c \in Callers :
            (/\ proxyCalls[c].fn = "update" /\ proxyCalls[c].pc = "scraping"
             /\ proxyCalls'[c].pc = "done") => ~proxyCache'.isUpdating]_vars

\* with no proxy stored yet, a call returned without a scrape while the
\* scrape of another call was in progress
C37_Witness ==
    \E c, o \in Callers :
        /\ proxyCache.proxies = <<>> /\ proxyCache.isUpdating
        /\ proxyCalls[o].fn = "update" /\ proxyCalls[o].pc = "scraping"
        /\ proxyCalls[c].fn = "update" /\ proxyCalls[c].pc = "done" /\ ~proxyCalls[c].scraped

\* C38: a call whose scrape failed or returned no proxy leaves the list
\* and lastUpdated as they were, a call whose scrape returned proxies
\* stores them; a list that is not empty never becomes empty.
C38_EmptyScrapeKeepsCache ==
    /\ [][\A c \in Callers :
            (proxyCalls[c].pc = "scraping" /\ proxyCalls'[c].pc = "done") =>
                IF proxyCalls'[c].result = <<>>
                THEN /\ proxyCache'.proxies = proxyCache.proxies
                     /\ proxyCache'.lastUpdated = proxyCache.lastUpdated
                ELSE proxyCache'.proxies = proxyCalls'[c].result]_vars
    /\ [][proxyCache.proxies # <<>> => proxyCache'.proxies # <<>>]_vars
    /\ [](\A c \in Callers :
            (proxyCalls[c].pc = "done" /\ proxyCalls[c].failed) => proxyCalls[c].result = <<>>)

\* with proxies stored, a forced update whose scrape failed has returned
\* the stored list, and an update whose page had no HTTPS row has finished
C38_Witness ==
    \E c, o \in Callers :
        /\ proxyCache.proxies # <<>>
        /\ proxyCalls[c].fn = "force" /\ proxyCalls[c].pc = "done" /\ proxyCalls[c].failed
        /\ proxyCalls[c].returned = proxyCache.proxies
        /\ proxyCalls[o].fn = "update" /\ proxyCalls[o].pc = "done" /\ ~proxyCalls[o].failed
        /\ proxyCalls[o].result = <<>> /\ proxyCalls[o].nowAt > proxyCache.lastUpdated

\* C39: proxyCache.lastUpdated never decreases.
C39_LastUpdatedMonotonic ==
    [][proxyCache'.lastUpdated >= proxyCache.lastUpdated]_vars

====
